---------------------------- MODULE Spec2Model ----------------------------
(***************************************************************************)
(* A model of svg-cli.py: one invocation of the command-line tool, from    *)
(* module load (the credential is read from the environment) through the   *)
(* create / edit command, the single HTTP POST, the extraction of the SVG  *)
(* text from the response, and the write of the output file.               *)
(*                                                                         *)
(* Python strings are TLA+ strings (Len, SubSeq and \o act on them).       *)
(* A Python value that may be None is a sequence of length at most one:    *)
(* <<>> is None and <<v>> is the value v.                                  *)
(***************************************************************************)
EXTENDS Integers, Sequences, FiniteSets, TLC

VARIABLES
    environ,      \* os.environ: a function from the names that are set to their values
    argv,         \* the parsed command line: [cmd, prompt, input, output]
    fs,           \* the file system: a function from the paths that exist to their text
    unreadable,   \* paths that exist but that the process may not read
    readonly,     \* paths that the process may not open for writing
    API_KEY,      \* the module global API_KEY (None before the module is loaded)
    pc,           \* the position of the invocation in the code
    headers,      \* the local `headers` of create_svg / edit_svg
    data,         \* the local `data` (the request payload) of create_svg / edit_svg
    svg_input,    \* the local `svg_content` of edit_svg: the text read from the input file
    posts,        \* the calls of requests.post made so far, each [url, headers, json, timeout]
    response,     \* what requests.post came back with (None before the call)
    svg_content,  \* the value create_svg / edit_svg returned to the command (None before)
    writes,       \* the writes of the output file made so far, each [path, text]
    stdout,       \* the lines printed with click.echo
    uncaught,     \* the exception that escaped the program (None when there is none)
    exit_code     \* the exit status of the process (None while it runs)

vars == <<environ, argv, fs, unreadable, readonly, API_KEY, pc, headers, data,
          svg_input, posts, response, svg_content, writes, stdout, uncaught,
          exit_code>>

None == <<>>
Some(v) == <<v>>

-----------------------------------------------------------------------------
(* Bounds of the model. *)

\* A credential is a concatenation of at most MaxKeyChunks pieces of KeyChunks.
MaxKeyChunks == 2
\* A response text is a concatenation of at most MaxTextChunks pieces of TextChunks.
MaxTextChunks == 4

KeyChunks == {"sk-ant-", "k"}
TextChunks == {"<svg", "</svg>", "a"}

RECURSIVE Concats(_, _)
Concats(chunks, n) ==
    IF n = 0 THEN {""}
    ELSE LET shorter == Concats(chunks, n - 1)
         IN  shorter \cup {s \o c : s \in shorter, c \in chunks}

Keys == Concats(KeyChunks, MaxKeyChunks)
Texts == Concats(TextChunks, MaxTextChunks)

Prompts == {"p"}
InputPath == "in.svg"
OutputPath == "out.svg"
InputTexts == {"<svg>old</svg>"}

-----------------------------------------------------------------------------
(* Python's string and truth operations. *)

\* s.startswith(p)
StartsWith(s, p) == Len(s) >= Len(p) /\ SubSeq(s, 1, Len(p)) = p

\* The 0-based offsets at which sub occurs in s.
Occurrences(s, sub) ==
    {i \in 0..(Len(s) - Len(sub)) : SubSeq(s, i + 1, i + Len(sub)) = sub}

\* sub in s
Contains(s, sub) == Occurrences(s, sub) # {}

\* s.find(sub): the lowest offset of sub in s, or -1
Find(s, sub) ==
    IF Occurrences(s, sub) = {} THEN -1
    ELSE CHOOSE i \in Occurrences(s, sub) : \A j \in Occurrences(s, sub) : i <= j

\* s[a:b] for 0 <= a and 0 <= b
Slice(s, a, b) ==
    LET hi == IF b < Len(s) THEN b ELSE Len(s)
    IN  IF a >= hi THEN "" ELSE SubSeq(s, a + 1, hi)

\* bool(v) for v None or a string
Truthy(v) == v # None /\ v[1] # ""

\* d.get(k) for a dict d
Get(d, k) == IF k \in DOMAIN d THEN Some(d[k]) ELSE None

\* a or b
PyOr(a, b) == IF Truthy(a) THEN a ELSE b

\* a dict with no key
EmptyDict == [k \in {} |-> ""]

-----------------------------------------------------------------------------
(* Module-level constants of svg-cli.py. *)

EnvNames == {"ANTHROPIC_API_KEY", "CLAUDE_API_KEY"}
API_URL == "https://api.anthropic.com/v1/messages"
MODEL == "claude-3-opus-20240229"
SVG_SYSTEM_PROMPT ==
    "You are an expert SVG creator. The user will ask you to create or modify SVG images.\n\nIMPORTANT INSTRUCTIONS:\n1. Respond ONLY with valid SVG code\n2. Do NOT include any explanations, comments, or markdown\n3. Your response must start with <svg and end with </svg>\n4. Create clean, optimized SVG code\n5. Do not include any text outside the SVG tags\n\nIf editing an existing SVG, maintain its structure while implementing the requested changes."

-----------------------------------------------------------------------------
(* The inputs of one invocation. *)

\* Every environment: each recognized name is unset or set to a key (maybe empty).
Environs == UNION {[names -> Keys] : names \in SUBSET EnvNames}

\* The command lines click accepts: create PROMPT -o OUT, edit -i IN -o OUT PROMPT.
Argvs ==
    {[cmd |-> "create", prompt |-> p, input |-> None, output |-> OutputPath] :
        p \in Prompts}
    \cup
    {[cmd |-> "edit", prompt |-> p, input |-> Some(InputPath), output |-> OutputPath] :
        p \in Prompts}

\* The file systems: the input file is missing or holds an SVG text. A file
\* that is there may still refuse to be read (no permission: open raises
\* PermissionError, an OSError that is no FileNotFoundError); that is the
\* variable `unreadable`.
FileSystems == {EmptyDict} \cup {(InputPath :> t) : t \in InputTexts}

\* The messages a requests.exceptions.RequestException can carry (connection
\* failure, timeout, non-2xx status from raise_for_status).
RequestErrors == {"timed out", "500 Server Error"}

\* The values response.json() can return: the documented shape with one text
\* block, an empty content list, a first block without text, no content at all.
Results ==
    {[content |-> <<[type |-> "text", text |-> t]>>] : t \in Texts}
    \cup {[content |-> <<>>],
          [content |-> <<[type |-> "tool_use"]>>],
          [type |-> "error"]}

\* What the three calls requests.post, raise_for_status and json come back with.
Responses ==
    {[error |-> Some(e), result |-> None] : e \in RequestErrors}
    \cup {[error |-> None, result |-> Some(r)] : r \in Results}

-----------------------------------------------------------------------------
(* The functions of svg-cli.py. *)

\* The two names read in the other order.
LoadApiKey_swapped(env) == PyOr(Get(env, "CLAUDE_API_KEY"), Get(env, "ANTHROPIC_API_KEY"))

\* API_KEY = os.environ.get("ANTHROPIC_API_KEY") or os.environ.get("CLAUDE_API_KEY")
LoadApiKey(env) == PyOr(Get(env, "ANTHROPIC_API_KEY"), Get(env, "CLAUDE_API_KEY"))

\* validate_api_key testing `API_KEY is None` in place of `not API_KEY`.
validate_api_key_is_none(key) == key # None

\* validate_api_key: TRUE when it returns, FALSE when it prints and exits.
validate_api_key(key) == Truthy(key)

NoKeyMessage ==
    "Error: Claude API key not found. Please set ANTHROPIC_API_KEY in your environment."

\* get_headers testing `"sk-ant-" in API_KEY` in place of startswith.
get_headers_contains(key) ==
    LET base == ("anthropic-version" :> "2023-06-01")
                @@ ("content-type" :> "application/json")
    IN  IF Contains(key[1], "sk-ant-")
        THEN ("x-api-key" :> key[1]) @@ base
        ELSE ("authorization" :> ("Bearer " \o key[1])) @@ base

\* get_headers, after validate_api_key has returned: the headers dict.
get_headers(key) ==
    LET base == ("anthropic-version" :> "2023-06-01")
                @@ ("content-type" :> "application/json")
    IN  IF StartsWith(key[1], "sk-ant-")
        THEN ("x-api-key" :> key[1]) @@ base
        ELSE ("authorization" :> ("Bearer " \o key[1])) @@ base

\* The `data` dict create_svg builds.
CreateData(prompt) ==
    [model |-> MODEL,
     max_tokens |-> 4096,
     system |-> SVG_SYSTEM_PROMPT,
     messages |-> <<[role |-> "user",
                     content |-> "Create an SVG image based on this description: "
                                 \o prompt]>>]

\* The `data` dict edit_svg builds.
EditData(prompt, svg) ==
    [model |-> MODEL,
     max_tokens |-> 4096,
     system |-> SVG_SYSTEM_PROMPT,
     messages |-> <<[role |-> "user",
                     content |-> <<[type |-> "text",
                                    text |-> "Here is an SVG file. " \o prompt],
                                   [type |-> "text", text |-> svg]>>]>>]

\* The exception result["content"][0]["text"] raises, or None when it yields a text.
ResultError(result) ==
    IF "content" \notin DOMAIN result THEN Some("KeyError")
    ELSE IF Len(result.content) = 0 THEN Some("IndexError")
    ELSE IF "text" \notin DOMAIN result.content[1] THEN Some("KeyError")
    ELSE None

\* result["content"][0]["text"], when it raises nothing.
ResultText(result) == result.content[1].text

\* The check without its second test.
HasSvg_open_only(content) == Contains(content, "<svg")

\* if "<svg" in content and "</svg>" in content
HasSvg(content) == Contains(content, "<svg") /\ Contains(content, "</svg>")

\* svg_start = content.find("<svg"); svg_end = content.find("</svg>") + 6;
\* content[svg_start:svg_end]
ExtractSvg(content) ==
    LET svg_start == Find(content, "<svg")
        svg_end == Find(content, "</svg>") + 6
    IN  Slice(content, svg_start, svg_end)

-----------------------------------------------------------------------------
(* The state machine of one invocation. *)

\* What no step of the program changes.
inputs == <<environ, argv, unreadable, readonly>>

Init ==
    /\ environ \in Environs
    /\ argv \in Argvs
    /\ fs \in FileSystems
    /\ unreadable \in SUBSET (DOMAIN fs)
    /\ readonly \in SUBSET {OutputPath}
    /\ API_KEY = None
    /\ pc = "load"
    /\ headers = None
    /\ data = None
    /\ svg_input = None
    /\ posts = <<>>
    /\ response = None
    /\ svg_content = None
    /\ writes = <<>>
    /\ stdout = <<>>
    /\ uncaught = None
    /\ exit_code = None

\* click.echo(message); sys.exit(1)
EchoAndExit(message) ==
    /\ stdout' = Append(stdout, message)
    /\ exit_code' = Some(1)
    /\ pc' = "done"
    /\ UNCHANGED uncaught

\* An exception nothing catches: the interpreter prints a traceback on stderr
\* (nothing on stdout) and the process ends with status 1.
Raise(exception) ==
    /\ uncaught' = Some(exception)
    /\ exit_code' = Some(1)
    /\ pc' = "done"
    /\ UNCHANGED stdout

\* Running the module body: API_KEY is read from the environment.
ModuleLoad ==
    /\ pc = "load"
    /\ API_KEY' = LoadApiKey(environ)
    /\ pc' = "cli"
    /\ UNCHANGED <<inputs, fs, headers, data, svg_input, posts, response,
                   svg_content, writes, stdout, uncaught, exit_code>>

\* headers = get_headers(), which starts with validate_api_key(), then data = {...}
BuildRequest(here, payload, next) ==
    /\ pc = here
    /\ IF validate_api_key(API_KEY)
       THEN /\ headers' = Some(get_headers(API_KEY))
            /\ data' = Some(payload)
            /\ pc' = next
            /\ UNCHANGED <<stdout, uncaught, exit_code>>
       ELSE /\ EchoAndExit(NoKeyMessage)
            /\ UNCHANGED <<headers, data>>
    /\ UNCHANGED <<inputs, fs, API_KEY, svg_input, posts, response, svg_content,
                   writes>>

\* response = requests.post(API_URL, headers=headers, json=data, timeout=60),
\* with raise_for_status() and json(): the network answers with any response.
Post(here, next) ==
    /\ pc = here
    /\ posts' = Append(posts, [url |-> API_URL, headers |-> headers[1],
                               json |-> data[1], timeout |-> 60])
    /\ \E r \in Responses : response' = Some(r)
    /\ pc' = next
    /\ UNCHANGED <<inputs, fs, API_KEY, headers, data, svg_input, svg_content,
                   writes, stdout, uncaught, exit_code>>

\* The try block with a RequestException handler that calls the API again.
Extract_retry(here, next) ==
    /\ pc = here
    /\ LET r == response[1] IN
       IF r.error # None
       THEN /\ pc' = IF here = "create_extract" THEN "create_post" ELSE "edit_post"
            /\ stdout' = Append(stdout, "Error calling Claude API: " \o r.error[1])
            /\ UNCHANGED <<svg_content, uncaught, exit_code>>
       ELSE IF ResultError(r.result[1]) # None
       THEN /\ Raise(ResultError(r.result[1])[1])
            /\ UNCHANGED svg_content
       ELSE IF HasSvg(ResultText(r.result[1]))
       THEN /\ svg_content' = Some(ExtractSvg(ResultText(r.result[1])))
            /\ pc' = next
            /\ UNCHANGED <<stdout, uncaught, exit_code>>
       ELSE /\ EchoAndExit("Error: Claude's response did not contain valid SVG code.")
            /\ UNCHANGED svg_content
    /\ UNCHANGED <<inputs, fs, API_KEY, headers, data, svg_input, posts, response,
                   writes>>

\* The rest of the try block: the RequestException handler, the subscripts
\* result["content"][0]["text"], the <svg ... </svg> check and the slice.
Extract(here, next) ==
    /\ pc = here
    /\ LET r == response[1] IN
       IF r.error # None
       THEN /\ EchoAndExit("Error calling Claude API: " \o r.error[1])
            /\ UNCHANGED svg_content
       ELSE IF ResultError(r.result[1]) # None
       THEN /\ Raise(ResultError(r.result[1])[1])
            /\ UNCHANGED svg_content
       ELSE IF HasSvg(ResultText(r.result[1]))
       THEN /\ svg_content' = Some(ExtractSvg(ResultText(r.result[1])))
            /\ pc' = next
            /\ UNCHANGED <<stdout, uncaught, exit_code>>
       ELSE /\ EchoAndExit("Error: Claude's response did not contain valid SVG code.")
            /\ UNCHANGED svg_content
    /\ UNCHANGED <<inputs, fs, API_KEY, headers, data, svg_input, posts, response,
                   writes>>

\* The save writing with print semantics: a newline follows the text.
Save_newline(here, success) ==
    /\ pc = here
    /\ IF argv.output \in readonly
       THEN /\ EchoAndExit("Error saving SVG file: [Errno 13] Permission denied: '"
                             \o argv.output \o "'")
            /\ UNCHANGED <<fs, writes>>
       ELSE /\ fs' = (argv.output :> (svg_content[1] \o "\n")) @@ fs
            /\ writes' = Append(writes, [path |-> argv.output,
                                         text |-> svg_content[1] \o "\n"])
            /\ stdout' = Append(stdout, success \o argv.output)
            /\ exit_code' = Some(0)
            /\ pc' = "done"
            /\ UNCHANGED uncaught
    /\ UNCHANGED <<inputs, API_KEY, headers, data, svg_input, posts, response,
                   svg_content>>

\* with open(output, "w") as f: f.write(svg_content), echo, except IOError
Save(here, success) ==
    /\ pc = here
    /\ IF argv.output \in readonly
       THEN /\ EchoAndExit("Error saving SVG file: [Errno 13] Permission denied: '"
                             \o argv.output \o "'")
            /\ UNCHANGED <<fs, writes>>
       ELSE /\ fs' = (argv.output :> svg_content[1]) @@ fs
            /\ writes' = Append(writes, [path |-> argv.output, text |-> svg_content[1]])
            /\ stdout' = Append(stdout, success \o argv.output)
            /\ exit_code' = Some(0)
            /\ pc' = "done"
            /\ UNCHANGED uncaught
    /\ UNCHANGED <<inputs, API_KEY, headers, data, svg_input, posts, response,
                   svg_content>>

\* The create command up to its call of create_svg.
create ==
    /\ pc = "cli"
    /\ argv.cmd = "create"
    /\ stdout' = Append(stdout, "Creating SVG from prompt: " \o argv.prompt)
    /\ pc' = "create_svg"
    /\ UNCHANGED <<inputs, fs, API_KEY, headers, data, svg_input, posts, response,
                   svg_content, writes, uncaught, exit_code>>

create_svg_request == BuildRequest("create_svg", CreateData(argv.prompt), "create_post")

create_svg_post == Post("create_post", "create_extract")

create_svg_extract == Extract("create_extract", "create_save")

create_save == Save("create_save", "SVG created successfully: ")

\* The edit command up to its call of edit_svg.
edit ==
    /\ pc = "cli"
    /\ argv.cmd = "edit"
    /\ stdout' = Append(stdout, "Editing SVG " \o argv.input[1] \o " with prompt: "
                                \o argv.prompt)
    /\ pc' = "edit_svg"
    /\ UNCHANGED <<inputs, fs, API_KEY, headers, data, svg_input, posts, response,
                   svg_content, writes, uncaught, exit_code>>

\* The read with a handler that goes on with an empty text.
edit_svg_read_default ==
    /\ pc = "edit_svg"
    /\ IF argv.input[1] \notin DOMAIN fs
       THEN /\ svg_input' = Some("")
            /\ pc' = "edit_request"
            /\ stdout' = Append(stdout, "Error: Input file '" \o argv.input[1]
                                        \o "' not found.")
            /\ UNCHANGED <<uncaught, exit_code>>
       ELSE IF argv.input[1] \in unreadable
       THEN /\ Raise("PermissionError")
            /\ UNCHANGED svg_input
       ELSE /\ svg_input' = Some(fs[argv.input[1]])
            /\ pc' = "edit_request"
            /\ UNCHANGED <<stdout, uncaught, exit_code>>
    /\ UNCHANGED <<inputs, fs, API_KEY, headers, data, posts, response, svg_content,
                   writes>>

\* The read of the input file, with its FileNotFoundError handler.
edit_svg_read ==
    /\ pc = "edit_svg"
    /\ IF argv.input[1] \notin DOMAIN fs
       THEN /\ EchoAndExit("Error: Input file '" \o argv.input[1] \o "' not found.")
            /\ UNCHANGED svg_input
       ELSE IF argv.input[1] \in unreadable
       THEN /\ Raise("PermissionError")
            /\ UNCHANGED svg_input
       ELSE /\ svg_input' = Some(fs[argv.input[1]])
            /\ pc' = "edit_request"
            /\ UNCHANGED <<stdout, uncaught, exit_code>>
    /\ UNCHANGED <<inputs, fs, API_KEY, headers, data, posts, response, svg_content,
                   writes>>

edit_svg_request ==
    BuildRequest("edit_request", EditData(argv.prompt, svg_input[1]), "edit_post")

edit_svg_post == Post("edit_post", "edit_extract")

edit_svg_extract == Extract("edit_extract", "edit_save")

edit_save == Save("edit_save", "SVG edited successfully: ")

Next ==
    \/ ModuleLoad
    \/ create
    \/ create_svg_request
    \/ create_svg_post
    \/ create_svg_extract
    \/ create_save
    \/ edit
    \/ edit_svg_read
    \/ edit_svg_request
    \/ edit_svg_post
    \/ edit_svg_extract
    \/ edit_save

Spec == Init /\ [][Next]_vars

TypeOK ==
    /\ pc \in {"load", "cli", "create_svg", "create_post", "create_extract",
               "create_save", "edit_svg", "edit_request", "edit_post",
               "edit_extract", "edit_save", "done"}
    /\ exit_code \in {None, Some(0), Some(1)}
    /\ (pc = "done") <=> (exit_code # None)

-----------------------------------------------------------------------------
(* Vocabulary of the properties. *)

\* s.endswith(p)
EndsWith(s, p) == Len(s) >= Len(p) /\ SubSeq(s, Len(s) - Len(p) + 1, Len(s)) = p

\* The last line printed.
LastLine == IF stdout = <<>> THEN "" ELSE stdout[Len(stdout)]

\* Neither recognized environment variable yields a non-empty value.
NoCredential ==
    /\ ~Truthy(Get(environ, "ANTHROPIC_API_KEY"))
    /\ ~Truthy(Get(environ, "CLAUDE_API_KEY"))

\* The network answered with a decodable body whose first content block has a text.
HasResponseText ==
    /\ response # None
    /\ response[1].error = None
    /\ "content" \in DOMAIN response[1].result[1]
    /\ Len(response[1].result[1].content) > 0
    /\ "text" \in DOMAIN response[1].result[1].content[1]

\* That text.
ResponseText == response[1].result[1].content[1].text

Exited == exit_code # None

ShapeMessage == "Error: Claude's response did not contain valid SVG code."

-----------------------------------------------------------------------------
(* C1 *)

\* C1: with no credential available (neither recognized environment variable
\* yields a non-empty value) no HTTP POST is ever made, and when the command
\* has ended it has ended with exit code 1.
C1_NoPostWithoutCredential ==
    NoCredential =>
        /\ posts = <<>>
        /\ response = None
        /\ Exited => exit_code = Some(1)

\* The edit command, input file read, stopped by validate_api_key.
C1_Witness ==
    /\ NoCredential
    /\ argv.cmd = "edit"
    /\ svg_input # None
    /\ exit_code = Some(1)
    /\ LastLine = NoKeyMessage

-----------------------------------------------------------------------------
(* C2 *)

\* C2: whenever create_svg or edit_svg has returned, the response text held
\* both `<svg` and `</svg>` and the returned text begins with `<svg` and ends
\* with `</svg>`.
C2_ReturnedTextIsSvgSpan ==
    svg_content # None =>
        /\ StartsWith(svg_content[1], "<svg")
        /\ EndsWith(svg_content[1], "</svg>")

-----------------------------------------------------------------------------
(* C3 *)

\* C3: after a response whose text lacks `<svg` or lacks `</svg>` nothing is
\* returned to the command, the output file is never written, and the command
\* ends with the output-shape message and exit code 1.
C3_NoWriteAfterShapeFailure ==
    (HasResponseText /\ ~(Contains(ResponseText, "<svg") /\ Contains(ResponseText, "</svg>")))
    =>  /\ svg_content = None
        /\ writes = <<>>
        /\ argv.output \notin DOMAIN fs
        /\ pc \notin {"create_save", "edit_save"}
        /\ Exited => (exit_code = Some(1) /\ LastLine = ShapeMessage)

\* A text with an opening tag and no closing tag has been rejected.
C3_Witness ==
    /\ HasResponseText
    /\ Contains(ResponseText, "<svg")
    /\ ~Contains(ResponseText, "</svg>")
    /\ exit_code = Some(1)
    /\ LastLine = ShapeMessage

-----------------------------------------------------------------------------
(* C4 *)

\* C4: the headers built for a credential starting with `sk-ant-` hold
\* x-api-key, equal to the credential, and no authorization entry; the headers
\* built for any other credential hold authorization, "Bearer " followed by
\* the credential, and no x-api-key entry. Every POST carries those headers.
C4_HeaderSelection ==
    headers # None =>
        /\ Truthy(API_KEY)
        /\ IF StartsWith(API_KEY[1], "sk-ant-")
           THEN /\ "x-api-key" \in DOMAIN headers[1]
                /\ headers[1]["x-api-key"] = API_KEY[1]
                /\ "authorization" \notin DOMAIN headers[1]
           ELSE /\ "authorization" \in DOMAIN headers[1]
                /\ headers[1]["authorization"] = "Bearer " \o API_KEY[1]
                /\ "x-api-key" \notin DOMAIN headers[1]
        /\ \A i \in 1..Len(posts) : posts[i].headers = headers[1]

\* A credential that holds `sk-ant-` but does not start with it was sent as a
\* bearer token.
C4_Witness ==
    /\ posts # <<>>
    /\ Contains(API_KEY[1], "sk-ant-")
    /\ ~StartsWith(API_KEY[1], "sk-ant-")
    /\ "authorization" \in DOMAIN posts[1].headers

-----------------------------------------------------------------------------
(* C5 *)

\* C5: when the command has got a text back from create_svg / edit_svg and the
\* output path can be written, it ends with exit code 0 and the output file
\* holds exactly that text; exit code 0 is reached in no other way.
C5_SuccessWritesExtracted ==
    /\ (Exited /\ svg_content # None /\ argv.output \notin readonly) =>
            /\ exit_code = Some(0)
            /\ argv.output \in DOMAIN fs
            /\ fs[argv.output] = svg_content[1]
            /\ writes = <<[path |-> argv.output, text |-> svg_content[1]]>>
    /\ exit_code = Some(0) =>
            /\ svg_content # None
            /\ argv.output \in DOMAIN fs
            /\ fs[argv.output] = svg_content[1]

\* The create command wrote a text cut out of surrounding prose.
C5_Witness ==
    /\ argv.cmd = "create"
    /\ exit_code = Some(0)
    /\ HasResponseText
    /\ ResponseText # svg_content[1]
    /\ svg_content[1] # ""
    /\ fs[argv.output] = svg_content[1]

-----------------------------------------------------------------------------
(* C6 *)

\* The edit command was given an input path that does not exist.
MissingInput == argv.cmd = "edit" /\ argv.input[1] \notin DOMAIN fs

InputMessage == "Error: Input file '" \o InputPath \o "' not found."

\* C6: the edit command with an input file that does not exist makes no POST
\* and writes no output file, with or without a credential, and when it has
\* ended it has printed the not-found message and exited with code 1.
C6_MissingInputFails ==
    MissingInput =>
        /\ posts = <<>>
        /\ writes = <<>>
        /\ argv.output \notin DOMAIN fs
        /\ svg_input = None
        /\ Exited => (exit_code = Some(1) /\ LastLine = InputMessage)

\* The edit command stopped at the missing input although a credential is set.
C6_Witness ==
    /\ MissingInput
    /\ Truthy(API_KEY)
    /\ exit_code = Some(1)
    /\ LastLine = InputMessage

-----------------------------------------------------------------------------
(* C7 *)

\* The lines the two commands print on success.
SuccessLines ==
    {"SVG created successfully: " \o OutputPath, "SVG edited successfully: " \o OutputPath}

\* C7: every invocation that ends with a failure has printed an error message
\* as its last line and exits with code 1, also when the decoded response has
\* an unexpected shape; exit code 0 occurs only with the success line.
C7_EveryFailureReported ==
    /\ exit_code = Some(1) => StartsWith(LastLine, "Error")
    /\ exit_code = Some(0) => LastLine \in SuccessLines
    /\ Exited => uncaught = None

-----------------------------------------------------------------------------
(* C8 *)

BothSet == EnvNames \subseteq DOMAIN environ

\* C8 as stated: whenever both variables are set, for every pair of values,
\* the credential is the value of ANTHROPIC_API_KEY.
C8_FirstNameAlwaysWins ==
    (pc # "load" /\ BothSet) => API_KEY = Some(environ["ANTHROPIC_API_KEY"])

\* C8 amended: whenever both variables are set, the credential is the value of
\* ANTHROPIC_API_KEY if that value is not empty, and the value of
\* CLAUDE_API_KEY if it is empty.
C8_FirstNonEmptyWins ==
    (pc # "load" /\ BothSet) =>
        API_KEY = IF environ["ANTHROPIC_API_KEY"] # ""
                  THEN Some(environ["ANTHROPIC_API_KEY"])
                  ELSE Some(environ["CLAUDE_API_KEY"])

\* Both variables hold different non-empty values and the module is loaded.
C8_Witness ==
    /\ pc # "load"
    /\ BothSet
    /\ environ["ANTHROPIC_API_KEY"] # ""
    /\ environ["CLAUDE_API_KEY"] # ""
    /\ environ["ANTHROPIC_API_KEY"] # environ["CLAUDE_API_KEY"]
    /\ API_KEY = Some(environ["ANTHROPIC_API_KEY"])

-----------------------------------------------------------------------------
(* C9 *)

\* At most one POST and one write; the edit command's POST carries the text
\* read from the input file; the write follows a POST that succeeded and an
\* extraction that returned.
StepOrder ==
    /\ Len(posts) <= 1
    /\ Len(writes) <= 1
    /\ (posts # <<>> /\ argv.cmd = "edit") =>
            /\ svg_input = Some(fs[argv.input[1]])
            /\ posts[1].json.messages[1].content[2].text = svg_input[1]
    /\ (posts = <<>>) = (response = None)
    /\ svg_content # None => (HasResponseText /\ Len(posts) = 1)
    /\ writes # <<>> => svg_content # None

\* C9: in every run the input read (edit) precedes the POST, at most one POST
\* is made, the output is written only after that POST has succeeded and the
\* extraction has returned, and after the process has exited (on any error or
\* on success) no further step is taken.
C9_FixedOrderNoRetry ==
    /\ []StepOrder
    /\ [][Exited => UNCHANGED vars]_vars

\* The edit command ended with a transport error after its one POST.
C9_Witness ==
    /\ argv.cmd = "edit"
    /\ Len(posts) = 1
    /\ response[1].error # None
    /\ exit_code = Some(1)
    /\ writes = <<>>

-----------------------------------------------------------------------------
(* C10 *)

\* C10: whenever the response text begins with `<svg` and ends with `</svg>`,
\* the text returned to the command is the response text unchanged.
C10_CleanOutputUnchanged ==
    (svg_content # None /\ StartsWith(ResponseText, "<svg")
                        /\ EndsWith(ResponseText, "</svg>"))
    => svg_content[1] = ResponseText

=============================================================================
